---- MODULE Spec2Model ----
(***************************************************************************)
(* BaseDataHandler (src/base_data_handler.py): a helper that owns one      *)
(* pandas DataFrame and a source path.  The DataFrame operations the class *)
(* delegates to (head, tail, sort_values, reset_index, fillna, mean,       *)
(* apply, drop_duplicates, dropna, clip, read_csv, to_csv) are modelled by *)
(* what pandas does on small tables; str.replace by what Python does.      *)
(* A method that reads self.df while self.__df is not set gets an          *)
(* AttributeError.  get_pivot, which only hands the table to               *)
(* pd.pivot_table and returns what that returns, is not modelled.          *)
(***************************************************************************)
EXTENDS Integers, Sequences, FiniteSets, TLC

(* ------------------------------ bounds -------------------------------- *)
\* most rows of a table the caller supplies
MaxRows == 2
\* most calls made on one handler after its construction
MaxCalls == 2
(* ------------------------------ cells --------------------------------- *)
\* A cell is a number (the rational n/d), NaN, or a Python str.  A str is
\* either the text of a number (what to_csv writes for it, d > 0) or the
\* word "x" (d = 0).
Num(n) == [k |-> "num", n |-> n, d |-> 1]
NaN == [k |-> "nan", n |-> 0, d |-> 1]
Word == [k |-> "str", n |-> 0, d |-> 0]
TextOf(c) == [k |-> "str", n |-> c.n, d |-> c.d]

IsNa(c) == c.k = "nan"
IsNum(c) == c.k = "num"
IsStr(c) == c.k = "str"

Abs(x) == IF x < 0 THEN -x ELSE x
Min(x, y) == IF x <= y THEN x ELSE y
Max(x, y) == IF x <= y THEN y ELSE x

RECURSIVE Gcd(_, _)
Gcd(x, y) == IF y = 0 THEN x ELSE Gcd(y, x % y)

\* the float n/d in lowest terms, d > 0
Frac(n, d) ==
    LET g == Gcd(Abs(n), d)
    IN [k |-> "num", n |-> n \div g, d |-> d \div g]

\* x < y and x + y on floats
NumLess(x, y) == x.n * y.d < y.n * x.d
NumAdd(x, y) == Frac(x.n * y.d + y.n * x.d, x.d * y.d)

(* ------------------------------ tables -------------------------------- *)
\* A DataFrame: its column labels in order, its index labels in row order,
\* and its rows, each a function from the column labels to cells.
Range(s) == {s[i] : i \in 1..Len(s)}

Frame(cols, idx, rows) == [cols |-> cols, idx |-> idx, rows |-> rows]

NRows(t) == Len(t.rows)

\* the rows of t at the positions pos, in that order (DataFrame.iloc / take)
Take(t, pos) ==
    Frame(t.cols, [i \in 1..Len(pos) |-> t.idx[pos[i]]],
          [i \in 1..Len(pos) |-> t.rows[pos[i]]])

\* the members of a set of positions, ascending
RECURSIVE Ascending(_)
Ascending(S) ==
    IF S = {} THEN <<>>
    ELSE LET m == CHOOSE x \in S : \A y \in S : x <= y
         IN <<m>> \o Ascending(S \ {m})

\* 0, 1, ..., n-1 (a fresh RangeIndex)
RangeIndex(n) == [i \in 1..n |-> i - 1]

\* what a Python try-body produced: an exception, or a value
Raised == [exc |-> TRUE, val |-> Frame(<<>>, <<>>, <<>>)]
Value(v) == [exc |-> FALSE, val |-> v]

(* ------------------------ DataFrame operations ------------------------ *)
HasCols(t, cols) == Range(cols) \subseteq Range(t.cols)

\* an object column that holds a str next to a number: comparing them raises
Mixed(t, c) ==
    /\ \E i \in 1..NRows(t) : IsStr(t.rows[i][c])
    /\ \E i \in 1..NRows(t) : IsNum(t.rows[i][c])

HasText(t, c) == \E i \in 1..NRows(t) : IsStr(t.rows[i][c])

\* DataFrame.head(n) is iloc[:n]
DfHead(t, n) ==
    LET N == NRows(t)
        stop == IF n >= 0 THEN Min(n, N) ELSE Max(N + n, 0)
    IN Take(t, [i \in 1..stop |-> i])

\* DataFrame.tail(n) is iloc[0:0] when n = 0 and iloc[-n:] otherwise
DfTail(t, n) ==
    LET N == NRows(t)
        start == IF n = 0 THEN N
                 ELSE IF -n < 0 THEN Max(N - n, 0) ELSE Min(-n, N)
    IN Take(t, [i \in 1..(N - start) |-> start + i])

\* x orders before y in a sort key; NaN is last in either direction; two
\* strs compare as text (digits order before the letter x)
CellLess(x, y) ==
    IF IsStr(x) /\ IsStr(y)
    THEN IF x.d = 0 THEN FALSE ELSE IF y.d = 0 THEN TRUE ELSE NumLess(x, y)
    ELSE NumLess(x, y)

CellBefore(x, y, up) ==
    IF IsNa(x) THEN FALSE
    ELSE IF IsNa(y) THEN TRUE
    ELSE IF up THEN CellLess(x, y) ELSE CellLess(y, x)

\* the direction of the i-th sort key: a bool is broadcast, a list is indexed
Direction(asc, i) == IF asc.list THEN asc.v[i] ELSE asc.v[1]

RECURSIVE RowBefore(_, _, _, _, _)
RowBefore(r1, r2, by, asc, i) ==
    IF i > Len(by) THEN FALSE
    ELSE IF CellBefore(r1[by[i]], r2[by[i]], Direction(asc, i)) THEN TRUE
    ELSE IF CellBefore(r2[by[i]], r1[by[i]], Direction(asc, i)) THEN FALSE
    ELSE RowBefore(r1, r2, by, asc, i + 1)

\* position p put into the sorted positions, after every row it does not
\* order before (a stable sort)
RECURSIVE InsertPos(_, _, _, _, _)
InsertPos(sorted, p, t, by, asc) ==
    IF sorted = <<>> THEN <<p>>
    ELSE IF RowBefore(t.rows[p], t.rows[sorted[1]], by, asc, 1)
         THEN <<p>> \o sorted
         ELSE <<sorted[1]>> \o InsertPos(Tail(sorted), p, t, by, asc)

RECURSIVE SortPerm(_, _, _, _)
SortPerm(t, by, asc, n) ==
    IF n = 0 THEN <<>>
    ELSE InsertPos(SortPerm(t, by, asc, n - 1), n, t, by, asc)

\* The orders sort_values may put the rows in.  Several keys are sorted by
\* a stable lexsort.  One key is sorted by numpy's quicksort (the default
\* kind), which is not stable: rows with equal keys come in any order;
\* the rows whose key is NaN follow, in their order.
SortOrders(t, by, asc) ==
    IF Len(by) # 1 THEN {SortPerm(t, by, asc, NRows(t))}
    ELSE {p \in [1..NRows(t) -> 1..NRows(t)] :
            /\ \A i, j \in 1..NRows(t) : i < j =>
                  /\ p[i] # p[j]
                  /\ ~RowBefore(t.rows[p[j]], t.rows[p[i]], by, asc, 1)
                  /\ IsNa(t.rows[p[i]][by[1]]) => p[i] < p[j]}

\* DataFrame.sort_values(by=, ascending=), every result it may have:
\* KeyError for an unknown column, ValueError when the list of directions
\* has another length than by, TypeError when a key column holds a str
\* next to a number
SortValues(t, by, asc) ==
    IF ~HasCols(t, by) THEN {Raised}
    ELSE IF asc.list /\ Len(asc.v) # Len(by) THEN {Raised}
    ELSE IF \E i \in 1..Len(by) : Mixed(t, by[i]) THEN {Raised}
    ELSE {Value(Take(t, p)) : p \in SortOrders(t, by, asc)}

\* DataFrame.reset_index(): the old index becomes the first column, named
\* "index", or "level_0" when there is an "index" column; ValueError when
\* the name is taken
ResetIndex(t) ==
    LET name == IF "index" \notin Range(t.cols) THEN "index" ELSE "level_0"
    IN IF name \in Range(t.cols) THEN Raised
       ELSE Value(Frame(<<name>> \o t.cols, RangeIndex(NRows(t)),
                  [i \in 1..NRows(t) |->
                     [c \in Range(t.cols) \cup {name} |->
                        IF c = name THEN Num(t.idx[i]) ELSE t.rows[i][c]]]))

\* DataFrame.mean(numeric_only=True) of one column: None for an object
\* column, NaN for a column with no number
ColMean(t, c) ==
    LET S == {i \in 1..NRows(t) : IsNum(t.rows[i][c])}
        RECURSIVE Sum(_)
        Sum(P) == IF P = {} THEN Num(0)
                  ELSE LET i == CHOOSE x \in P : TRUE
                       IN NumAdd(t.rows[i][c], Sum(P \ {i}))
    IN IF S = {} THEN NaN
       ELSE Frac(Sum(S).n, Sum(S).d * Cardinality(S))

\* DataFrame.fillna(0), and DataFrame.fillna(<the numeric columns' means>)
FillNa(t, zero) ==
    Frame(t.cols, t.idx,
          [i \in 1..NRows(t) |->
             [c \in Range(t.cols) |->
                IF ~IsNa(t.rows[i][c]) THEN t.rows[i][c]
                ELSE IF zero THEN Num(0)
                ELSE IF HasText(t, c) THEN NaN
                ELSE ColMean(t, c)]])

\* DataFrame.drop_duplicates(): a row stays unless an earlier row has the
\* same cells in every column
DropDuplicates(t) ==
    Take(t, Ascending({i \in 1..NRows(t) :
                         \A j \in 1..(i - 1) : t.rows[j] # t.rows[i]}))

\* DataFrame.dropna(subset=cols): KeyError for an unknown column
DropNaRows(t, cols) ==
    IF ~HasCols(t, cols) THEN Raised
    ELSE Value(Take(t, Ascending({i \in 1..NRows(t) :
                         \A j \in 1..Len(cols) : ~IsNa(t.rows[i][cols[j]])})))

\* dropna(axis=1) with how='any' in place of how='all'
DropNaColsAny(t) ==
    LET keep == {c \in Range(t.cols) :
                   \A i \in 1..NRows(t) : ~IsNa(t.rows[i][c])}
    IN Frame(SelectSeq(t.cols, LAMBDA c : c \in keep), t.idx,
             [i \in 1..NRows(t) |-> [c \in keep |-> t.rows[i][c]]])

\* DataFrame.dropna(axis=1, how='all'): a column stays when it counts at
\* least one cell that is not NaN
DropNaCols(t) ==
    LET keep == {c \in Range(t.cols) :
                   \E i \in 1..NRows(t) : ~IsNa(t.rows[i][c])}
    IN Frame(SelectSeq(t.cols, LAMBDA c : c \in keep), t.idx,
             [i \in 1..NRows(t) |-> [c \in keep |-> t.rows[i][c]]])

\* clip that forgets its upper bound
ClipCellNoUpper(x, lo, hi) ==
    IF IsNum(x) /\ NumLess(x, Num(Min(lo, hi))) THEN Num(Min(lo, hi)) ELSE x

\* one number clipped: clip swaps its two scalar bounds when lower > upper
ClipCell(x, lo, hi) ==
    LET l == Num(Min(lo, hi))
        u == Num(Max(lo, hi))
    IN IF ~IsNum(x) THEN x
       ELSE IF NumLess(x, l) THEN l
       ELSE IF NumLess(u, x) THEN u
       ELSE x

\* df[cols].clip(lo, hi): KeyError for an unknown column, TypeError for a
\* column holding a str; the value is df with the clipped columns set
Clip(t, cols, lo, hi) ==
    IF ~HasCols(t, cols) THEN Raised
    ELSE IF \E j \in 1..Len(cols) : HasText(t, cols[j]) THEN Raised
    ELSE Value(Frame(t.cols, t.idx,
               [i \in 1..NRows(t) |->
                  [c \in Range(t.cols) |->
                     IF c \in Range(cols) THEN ClipCell(t.rows[i][c], lo, hi)
                     ELSE t.rows[i][c]]]))

\* df[target] = column: an existing column is overwritten in its place, a
\* new one is appended
SetColumn(t, target, col) ==
    Frame(IF target \in Range(t.cols) THEN t.cols ELSE Append(t.cols, target),
          t.idx,
          [i \in 1..NRows(t) |->
             [c \in Range(t.cols) \cup {target} |->
                IF c = target THEN col[i] ELSE t.rows[i][c]]])

\* what the callable handed to try_add_col does with one row or column r
\*   "b_plus_1": lambda r: r["b"] + 1     "one": lambda r: 1
\*   "raises":   lambda r: 1 / 0
Criteria == {"b_plus_1", "one", "raises"}

\* DataFrame.apply(criteria, axis) on a frame with rows and columns.
\* axis=1 calls criteria on each row: r["b"] is a KeyError without a column
\* b, and str + 1 a TypeError.  axis=0 calls it on each column, a Series
\* labelled by the row index, where r["b"] is a KeyError; the result is
\* labelled by the column names, so that setting it as a column aligns it
\* with the row index and leaves NaN in every row.
Apply(t, crit, axis) ==
    IF axis \notin {0, 1} THEN Raised
    ELSE IF crit = "raises" THEN Raised
    ELSE IF axis = 0
         THEN IF crit = "one" THEN Value([i \in 1..NRows(t) |-> NaN])
              ELSE Raised
    ELSE IF crit = "one" THEN Value([i \in 1..NRows(t) |-> Num(1)])
    ELSE IF "b" \notin Range(t.cols) THEN Raised
    ELSE IF HasText(t, "b") THEN Raised
    ELSE Value([i \in 1..NRows(t) |->
                  IF IsNa(t.rows[i]["b"]) THEN NaN
                  ELSE NumAdd(t.rows[i]["b"], Num(1))])

(* ------------------------------ files --------------------------------- *)
\* A path is a Python str, a sequence of characters, or None.
NoPath == [some |-> FALSE, s |-> <<>>]
Path(s) == [some |-> TRUE, s |-> s]

DotCsv == <<".", "c", "s", "v">>
NewCsv == <<"_", "n", "e", "w", ".", "c", "s", "v">>

\* str.replace(old, new): every occurrence of old, left to right, without
\* overlap, is replaced
RECURSIVE StrReplace(_, _, _)
StrReplace(s, old, new) ==
    IF Len(s) < Len(old) THEN s
    ELSE IF SubSeq(s, 1, Len(old)) = old
         THEN new \o StrReplace(SubSeq(s, Len(old) + 1, Len(s)), old, new)
         ELSE <<s[1]>> \o StrReplace(Tail(s), old, new)

\* a path into a directory that does not exist: open() fails for it
NoSuchDir(s) == "/" \in Range(s)

\* a file: a header line of names and records under them; the name ""
\* heads the index that to_csv writes first.  The disk maps the paths of
\* the files that are there to what they hold.
File(hdr, recs) == [hdr |-> hdr, recs |-> recs]

\* the disk after path was written with the content file
Written(files, path, file) ==
    [q \in DOMAIN files \cup {path} |-> IF q = path THEN file ELSE files[q]]

\* DataFrame.to_csv(path): the index, then the columns
ToCsv(t) ==
    File(<<"">> \o t.cols,
         [i \in 1..NRows(t) |->
            [h \in Range(t.cols) \cup {""} |->
               IF h = "" THEN Num(t.idx[i]) ELSE t.rows[i][h]]])

\* read_csv's name for the i-th header field: an empty field is
\* "Unnamed: <i-1>", and a name seen before gets the suffix ".1"
FieldName(hdr, i) ==
    IF hdr[i] = "" THEN "Unnamed: 0"
    ELSE IF hdr[i] = "Unnamed: 0" /\ "" \in Range(hdr) THEN "Unnamed: 0.1"
    ELSE hdr[i]

\* pd.read_csv of a file's content: a fresh index; a column holding text is
\* read as text throughout, its numbers too
ParseCsv(f) ==
    LET text(h) == \E i \in 1..Len(f.recs) : IsStr(f.recs[i][h])
        name == [i \in 1..Len(f.hdr) |-> FieldName(f.hdr, i)]
        field(c) == f.hdr[CHOOSE i \in 1..Len(f.hdr) : name[i] = c]
    IN Frame(name, RangeIndex(Len(f.recs)),
             [i \in 1..Len(f.recs) |->
                [c \in Range(name) |->
                   LET x == f.recs[i][field(c)]
                   IN IF IsNum(x) /\ text(field(c)) THEN TextOf(x) ELSE x]])

\* pd.read_csv(path): ValueError for None, FileNotFoundError for a file or
\* directory that is not there
ReadCsv(files, path) ==
    IF ~path.some THEN Raised
    ELSE IF NoSuchDir(path.s) THEN Raised
    ELSE IF path.s \notin DOMAIN files THEN Raised
    ELSE Value(ParseCsv(files[path.s]))

(* ------------------------------ inputs -------------------------------- *)
\* the defaults of get_lines(amount) and try_clamp_cols(min_v, max_v)
DefaultAmount == 5
DefaultMin == 0
DefaultMax == 200

Empty == Frame(<<>>, <<>>, <<>>)

\* an optional DataFrame argument
NoDf == [some |-> FALSE, t |-> Empty]
Df(t) == [some |-> TRUE, t |-> t]

\* the tables a caller supplies: every table of at most MaxRows rows with
\* the columns a and b under a fresh index, and three more: the table
\* [{a:1,b:2},{a:1,b:2},{a:3,b:None}], a table whose column b holds a
\* word, and a table that has a column named "index"
AVals == {Num(1), Num(3)}
BVals == {Num(2), NaN}

CallerRows == {r \in [{"a", "b"} -> AVals \cup BVals] :
                 r["a"] \in AVals /\ r["b"] \in BVals}

Row(a, b) == [c \in {"a", "b"} |-> IF c = "a" THEN a ELSE b]

ScenarioTable ==
    Frame(<<"a", "b">>, RangeIndex(3),
          <<Row(Num(1), Num(2)), Row(Num(1), Num(2)), Row(Num(3), NaN)>>)

WordTable ==
    Frame(<<"a", "b">>, RangeIndex(2), <<Row(Num(3), Word), Row(Num(1), NaN)>>)

IndexedTable ==
    Frame(<<"index", "a", "b">>, RangeIndex(2),
          <<[c \in {"index", "a", "b"} |->
               IF c = "index" THEN Num(1) ELSE IF c = "a" THEN Num(3) ELSE Num(2)],
            [c \in {"index", "a", "b"} |->
               IF c = "index" THEN Num(0) ELSE IF c = "a" THEN Num(1) ELSE NaN]>>)

CallerTables ==
    UNION {{Frame(<<"a", "b">>, RangeIndex(m), rows) :
              rows \in [1..m -> CallerRows]} : m \in 0..MaxRows}
    \cup {ScenarioTable, WordTable, IndexedTable}

\* the table try_update_df is handed after construction
OtherTable == Frame(<<"a", "b">>, RangeIndex(1), <<Row(Num(3), NaN)>>)

\* the source paths: "d.csv", "d.csv.csv", "d" and "q/d.csv"
SourcePaths ==
    {<<"d">> \o DotCsv, <<"d">> \o DotCsv \o DotCsv, <<"d">>,
     <<"q", "/", "d">> \o DotCsv}

\* the disk before the handler is built: the source files in the working
\* directory hold the lines "a,b", "2,", "1,2"
SourceFile ==
    File(<<"a", "b">>,
         <<Row(Num(2), NaN), Row(Num(1), Num(2))>>)

Disk == [p \in {q \in SourcePaths : ~NoSuchDir(q)} |-> SourceFile]

\* the arguments the calls are made with
Amounts == (-MaxRows .. MaxRows) \cup {DefaultAmount}
ColArgs == {<<"a">>, <<"b">>, <<"b", "a">>, <<"z">>}
Bool(b) == [list |-> FALSE, v |-> <<b>>]
Bools(v) == [list |-> TRUE, v |-> v]
OrderArgs ==
    {<<<<"a">>, Bool(TRUE)>>, <<<<"a">>, Bool(FALSE)>>, <<<<"b">>, Bool(TRUE)>>,
     <<<<"b", "a">>, Bool(FALSE)>>, <<<<"b", "a">>, Bools(<<TRUE, FALSE>>)>>,
     <<<<"a">>, Bools(<<TRUE, FALSE>>)>>, <<<<"z">>, Bool(TRUE)>>}
GroupArgs == {<<<<"a">>, "b">>, <<<<"z">>, "b">>, <<<<"a">>, "z">>}
AddArgs ==
    {<<"c", "b_plus_1", 1>>, <<"a", "b_plus_1", 1>>, <<"c", "one", 1>>,
     <<"c", "one", 0>>, <<"c", "raises", 1>>, <<"c", "b_plus_1", 0>>}
ClampArgs ==
    {<<cols, b[1], b[2]>> :
       cols \in {<<"a">>, <<"b", "a">>, <<"z">>},
       b \in {<<DefaultMin, DefaultMax>>, <<2, 2>>, <<3, 2>>}}

(* ------------------------------ state --------------------------------- *)
VARIABLES
    file_path,  \* self.file_path
    has_df,     \* whether the attribute self.__df is set
    df,         \* the DataFrame self.__df is bound to (Empty when unset)
    fs,         \* the files on disk
    caller,     \* the DataFrame the caller holds a reference to
    last,       \* the last call: its name, arguments and result
    ret,        \* the table the last call returned (get_lines)
    raised,     \* the last call ended in an exception it did not catch
    pre,        \* df before the last call
    preHas,     \* has_df before the last call
    calls       \* the calls made so far

vars == <<file_path, has_df, df, fs, caller, last, ret, raised, pre, preHas,
          calls>>

\* The caller's reference: whether it holds one, whether it is the very
\* object self.__df is bound to, what that object holds now, and what it
\* held when the caller got it.
NotHeld == [held |-> FALSE, alias |-> FALSE, val |-> Empty, orig |-> Empty]
Held(t) == [held |-> TRUE, alias |-> TRUE, val |-> t, orig |-> t]

TryOps == {"try_get_groupby", "try_update_df", "try_order_by", "try_fill_nan",
           "try_add_col", "try_remove_duplicates", "try_save", "try_drop_nan",
           "try_clamp_cols"}

Result(r) == IF r.exc THEN "Failure" ELSE "Success"

\* self.__df = t: the name is bound to another object
Rebind(t) ==
    /\ df' = t
    /\ has_df' = TRUE
    /\ caller' = [caller EXCEPT !.alias = FALSE]

\* self.__df[...] = ...: the object self.__df is bound to is changed
InPlace(t) ==
    /\ df' = t
    /\ has_df' = has_df
    /\ caller' = IF caller.alias THEN [caller EXCEPT !.val = t] ELSE caller

Keep == UNCHANGED <<df, has_df, caller>>

\* the call returned (True, ...) or (False, e)
Returned(op, args, res, payload) ==
    /\ calls < MaxCalls
    /\ calls' = calls + 1
    /\ last' = [op |-> op, res |-> res, a |-> args]
    /\ ret' = payload
    /\ raised' = FALSE
    /\ pre' = df
    /\ preHas' = has_df

\* the call ended in an exception
Escaped(op, args) ==
    /\ calls < MaxCalls
    /\ calls' = calls + 1
    /\ last' = [op |-> op, res |-> "raise", a |-> args]
    /\ ret' = Empty
    /\ raised' = TRUE
    /\ pre' = df
    /\ preHas' = has_df

(* --------------------------- construction ----------------------------- *)
\* the body of try_update_df
UpdateDf(files, path, arg) ==
    IF arg.some THEN Value(arg.t) ELSE ReadCsv(files, path)

\* __init__(path, df): a failure of try_update_df is printed
Construct(path, arg) ==
    LET r == UpdateDf(Disk, path, arg)
    IN /\ file_path = path
       /\ fs = Disk
       /\ has_df = ~r.exc
       /\ df = (IF r.exc THEN Empty ELSE r.val)
       /\ caller = (IF arg.some THEN Held(arg.t) ELSE NotHeld)
       /\ last = [op |-> "__init__", res |-> Result(r),
                  a |-> [path |-> path, df |-> arg]]
       /\ ret = Empty
       /\ raised = FALSE
       /\ pre = Empty
       /\ preHas = FALSE
       /\ calls = 0

Init ==
    \/ \E t \in CallerTables : Construct(NoPath, Df(t))
    \/ \E p \in SourcePaths : \E arg \in {NoDf, Df(OtherTable)} :
          Construct(Path(p), arg)
    \/ Construct(NoPath, NoDf)

(* ----------------------------- operations ----------------------------- *)
\* get_lines(amount): head for a positive amount, tail otherwise; no try
GetLines(amount) ==
    /\ IF ~has_df THEN Escaped("get_lines", [amount |-> amount])
       ELSE Returned("get_lines", [amount |-> amount], "value",
                     IF amount > 0 THEN DfHead(df, amount)
                     ELSE DfTail(df, amount))
    /\ Keep
    /\ UNCHANGED <<file_path, fs>>

\* print_dataframe(): print(self.df); no try
PrintDataframe ==
    /\ IF ~has_df THEN Escaped("print_dataframe", [none |-> TRUE])
       ELSE Returned("print_dataframe", [none |-> TRUE], "value", Empty)
    /\ Keep
    /\ UNCHANGED <<file_path, fs>>

\* the df property, read by a caller who keeps what it returns
ReadDf ==
    /\ IF ~has_df THEN Escaped("df", [none |-> TRUE]) /\ caller' = caller
       ELSE Returned("df", [none |-> TRUE], "value", Empty)
            /\ caller' = Held(df)
    /\ UNCHANGED <<df, has_df, file_path, fs>>

\* self.df.groupby(by=target_col)[col]: KeyError for an unknown column
GroupBy(target_col, col) ==
    IF ~has_df THEN Raised
    ELSE IF ~HasCols(df, target_col) THEN Raised
    ELSE IF col \notin Range(df.cols) THEN Raised
    ELSE Value(Empty)

TryGetGroupby(target_col, col) ==
    /\ Returned("try_get_groupby", [target_col |-> target_col, col |-> col],
                Result(GroupBy(target_col, col)), Empty)
    /\ Keep
    /\ UNCHANGED <<file_path, fs>>

\* try_update_df that unsets self.__df before it reads the file
TryUpdateDfResets(arg) ==
    LET r == UpdateDf(fs, file_path, arg)
    IN /\ Returned("try_update_df", [df |-> arg], Result(r), Empty)
       /\ IF r.exc
          THEN df' = Empty /\ has_df' = FALSE
               /\ caller' = [caller EXCEPT !.alias = FALSE]
          ELSE /\ df' = r.val
               /\ has_df' = TRUE
               /\ caller' = IF arg.some THEN Held(arg.t)
                            ELSE [caller EXCEPT !.alias = FALSE]
       /\ UNCHANGED <<file_path, fs>>

\* try_update_df(df): adopt df, or read self.file_path
TryUpdateDf(arg) ==
    LET r == UpdateDf(fs, file_path, arg)
    IN /\ Returned("try_update_df", [df |-> arg], Result(r), Empty)
       /\ IF r.exc THEN Keep
          ELSE /\ df' = r.val
               /\ has_df' = TRUE
               /\ caller' = IF arg.some THEN Held(arg.t)
                            ELSE [caller EXCEPT !.alias = FALSE]
       /\ UNCHANGED <<file_path, fs>>

\* self.df.sort_values(by=cols, ascending=ascending).reset_index(), every
\* result it may have
OrderBy(cols, ascending) ==
    IF ~has_df THEN {Raised}
    ELSE {IF sorted.exc THEN Raised ELSE ResetIndex(sorted.val) :
            sorted \in SortValues(df, cols, ascending)}

\* try_order_by in two statements: self.__df = self.df.sort_values(...),
\* then self.__df = self.df.reset_index()
TryOrderByTwoSteps(cols, ascending) ==
    /\ calls < MaxCalls
    /\ \E sorted \in (IF ~has_df THEN {Raised}
                      ELSE SortValues(df, cols, ascending)) :
       LET r == IF sorted.exc THEN Raised ELSE ResetIndex(sorted.val)
       IN /\ Returned("try_order_by",
                      [cols |-> cols, ascending |-> ascending], Result(r), Empty)
          /\ IF sorted.exc THEN Keep
             ELSE IF r.exc THEN Rebind(sorted.val) ELSE Rebind(r.val)
          /\ UNCHANGED <<file_path, fs>>

TryOrderBy(cols, ascending) ==
    /\ calls < MaxCalls
    /\ \E r \in OrderBy(cols, ascending) :
       /\ Returned("try_order_by", [cols |-> cols, ascending |-> ascending],
                   Result(r), Empty)
       /\ IF r.exc THEN Keep ELSE Rebind(r.val)
       /\ UNCHANGED <<file_path, fs>>

\* self.df.fillna(0 if use_mean else self.df.mean(numeric_only=True))
TryFillNan(use_mean) ==
    LET r == IF ~has_df THEN Raised ELSE Value(FillNa(df, use_mean))
    IN /\ Returned("try_fill_nan", [use_mean |-> use_mean], Result(r), Empty)
       /\ IF r.exc THEN Keep ELSE Rebind(r.val)
       /\ UNCHANGED <<file_path, fs>>

\* try_add_col without its try: what apply raises leaves the method
TryAddColNoTry(target_col, criteria, axis) ==
    LET args == [target_col |-> target_col, criteria |-> criteria,
                 axis |-> axis]
        r == IF ~has_df THEN Raised ELSE Apply(df, criteria, axis)
    IN /\ IF r.exc THEN Escaped("try_add_col", args) /\ Keep
          ELSE Returned("try_add_col", args, "Success", Empty)
               /\ InPlace(SetColumn(df, target_col, r.val))
       /\ UNCHANGED <<file_path, fs>>

\* self.__df[target_col] = self.df.apply(criteria, axis=axis).  On a frame
\* without rows apply calls criteria once on an empty Series and, whatever
\* comes of it, returns a copy of the frame or an empty Series; setting
\* that as a column succeeds or is a ValueError, by the pandas version.
TryAddCol(target_col, criteria, axis) ==
    LET args == [target_col |-> target_col, criteria |-> criteria,
                 axis |-> axis]
        r == IF ~has_df THEN Raised ELSE Apply(df, criteria, axis)
    IN /\ IF has_df /\ NRows(df) = 0 /\ axis \in {0, 1}
          THEN \/ Returned("try_add_col", args, "Failure", Empty) /\ Keep
               \/ Returned("try_add_col", args, "Success", Empty)
                  /\ InPlace(SetColumn(df, target_col, <<>>))
          ELSE /\ Returned("try_add_col", args, Result(r), Empty)
               /\ IF r.exc THEN Keep
                  ELSE InPlace(SetColumn(df, target_col, r.val))
       /\ UNCHANGED <<file_path, fs>>

\* self.df.drop_duplicates()
TryRemoveDuplicates ==
    LET r == IF ~has_df THEN Raised ELSE Value(DropDuplicates(df))
    IN /\ Returned("try_remove_duplicates", [none |-> TRUE], Result(r), Empty)
       /\ IF r.exc THEN Keep ELSE Rebind(r.val)
       /\ UNCHANGED <<file_path, fs>>

\* self.file_path.replace('.csv', '_new.csv'): AttributeError on None
NewFilePath(path) ==
    IF ~path.some THEN Raised
    ELSE Value(StrReplace(path.s, DotCsv, NewCsv))

\* self.df.to_csv(new_file_path): OSError when the file cannot be opened
TrySave ==
    LET new_file_path == NewFilePath(file_path)
        ok == new_file_path.exc = FALSE /\ has_df
              /\ ~NoSuchDir(new_file_path.val)
    IN /\ Returned("try_save",
                   [path |-> IF ok THEN Path(new_file_path.val) ELSE NoPath],
                   IF ok THEN "Success" ELSE "Failure", Empty)
       /\ fs' = IF ok THEN Written(fs, new_file_path.val, ToCsv(df)) ELSE fs
       /\ Keep
       /\ UNCHANGED file_path

\* self.__df = self.df.dropna(subset=cols), then
\* self.__df = self.df.dropna(axis=1, how='all')
TryDropNan(cols) ==
    LET first == IF ~has_df THEN Raised ELSE DropNaRows(df, cols)
    IN /\ Returned("try_drop_nan", [cols |-> cols], Result(first), Empty)
       /\ IF first.exc THEN Keep ELSE Rebind(DropNaCols(first.val))
       /\ UNCHANGED <<file_path, fs>>

\* self.__df[cols] = self.df[cols].clip(min_v, max_v)
TryClampCols(cols, min_v, max_v) ==
    LET r == IF ~has_df THEN Raised ELSE Clip(df, cols, min_v, max_v)
    IN /\ Returned("try_clamp_cols",
                   [cols |-> cols, min_v |-> min_v, max_v |-> max_v],
                   Result(r), Empty)
       /\ IF r.exc THEN Keep ELSE InPlace(r.val)
       /\ UNCHANGED <<file_path, fs>>

Next ==
    \/ \E amount \in Amounts : GetLines(amount)
    \/ PrintDataframe
    \/ ReadDf
    \/ \E g \in GroupArgs : TryGetGroupby(g[1], g[2])
    \/ \E arg \in {NoDf, Df(OtherTable)} : TryUpdateDf(arg)
    \/ \E o \in OrderArgs : TryOrderBy(o[1], o[2])
    \/ \E use_mean \in BOOLEAN : TryFillNan(use_mean)
    \/ \E c \in AddArgs : TryAddCol(c[1], c[2], c[3])
    \/ TryRemoveDuplicates
    \/ TrySave
    \/ \E cols \in ColArgs : TryDropNan(cols)
    \/ \E c \in ClampArgs : TryClampCols(c[1], c[2], c[3])

Spec == Init /\ [][Next]_vars

(* ------------------------------ claims -------------------------------- *)
\* C1: whenever a try_* operation returns Failure, the owned table (its
\* columns, index, rows and cells, and whether it is set at all) is what it
\* was immediately before the call.
FailureLeavesTable ==
    (last.op \in TryOps /\ last.res = "Failure") =>
        (has_df = preHas /\ df = pre)

\* try_order_by failed on a populated table with rows, for an unknown column
FailureLeavesTableWitness ==
    /\ last.op = "try_order_by"
    /\ last.res = "Failure"
    /\ last.a.cols = <<"z">>
    /\ preHas
    /\ NRows(pre) > 0

\* C2: every try_* operation, in either handler state and for every
\* argument, returns Success or Failure; no exception leaves it.
NoErrorEscapesTry ==
    last.op \in TryOps => (~raised /\ last.res \in {"Success", "Failure"})

\* try_add_col was called on a populated table with a criteria that raises
NoErrorEscapesTryWitness ==
    /\ last.op = "try_add_col"
    /\ last.a.criteria = "raises"
    /\ preHas
    /\ NRows(pre) > 0
    /\ last.res = "Failure"

\* the rows of t are in the order of the keys by, in the directions asc
Sorted(t, by, asc) ==
    \A i \in 1..NRows(t) : \A j \in (i + 1)..NRows(t) :
        ~RowBefore(t.rows[j], t.rows[i], by, asc, 1)

\* C3: try_order_by(cols, asc) called again right after a successful
\* try_order_by(cols, asc) leaves the owned table as the first call left it
\* (same columns, same rows in the same order), sorted by cols, with the
\* row count it had.
OrderByIdempotent ==
    [][(/\ last.op = "try_order_by"
        /\ last.res = "Success"
        /\ last'.op = "try_order_by"
        /\ last'.a = last.a)
       => (/\ df' = df
           /\ Sorted(df', last.a.cols, last.a.ascending)
           /\ NRows(df') = NRows(df))]_vars

\* str.replace(old, new, 1): only the first occurrence is replaced
RECURSIVE ReplaceFirst(_, _, _)
ReplaceFirst(s, old, new) ==
    IF Len(s) < Len(old) THEN s
    ELSE IF SubSeq(s, 1, Len(old)) = old
         THEN new \o SubSeq(s, Len(old) + 1, Len(s))
         ELSE <<s[1]>> \o ReplaceFirst(Tail(s), old, new)

\* C4: try_save writes the owned table to the source path with only its
\* first ".csv" replaced by "_new.csv" (the source path itself when it has
\* no ".csv"); with the source path unset it returns Failure and writes
\* nothing.
SaveReplacesFirstCsv ==
    last.op = "try_save" =>
        /\ ~file_path.some => (last.res = "Failure" /\ fs = Disk)
        /\ (file_path.some /\ last.res = "Success") =>
              /\ last.a.path = Path(ReplaceFirst(file_path.s, DotCsv, NewCsv))
              /\ last.a.path.s \in DOMAIN fs
              /\ fs[last.a.path.s] = ToCsv(df)

\* the source path can be read: it names a file that is there
Readable(path) ==
    /\ path.some
    /\ ~NoSuchDir(path.s)
    /\ path.s \in DOMAIN Disk

\* C5: the handler is unset or populated.  Construction with a table or a
\* readable source path ends populated, with neither unset; from unset only
\* a successful try_update_df populates it, every other try_* operation
\* returns Failure and leaves it unset; once populated it stays populated.
TwoStates ==
    /\ last.op = "__init__" =>
          (has_df = (last.a.df.some \/ Readable(last.a.path)))
    /\ (last.op # "__init__" /\ ~preHas /\ has_df) =>
          (last.op = "try_update_df" /\ last.res = "Success")
    /\ (last.op \in TryOps \ {"try_update_df"} /\ ~preHas) =>
          (last.res = "Failure" /\ ~has_df)
    /\ (last.op # "__init__" /\ preHas) => has_df

\* an unset handler was populated by try_update_df
TwoStatesWitness ==
    /\ last.op = "try_update_df"
    /\ ~preHas
    /\ has_df

\* C6: construction with no source path and no table leaves an unset
\* handler, and get_lines() on an unset handler yields an empty result or a
\* reported failure: it does not end in an uncaught error.
GetLinesOnUnsetReports ==
    /\ (last.op = "__init__" /\ ~last.a.path.some /\ ~last.a.df.some) =>
          (~has_df /\ ~raised)
    /\ (last.op = "get_lines" /\ ~preHas) => ~raised

\* C7: after a successful try_drop_nan(cols) no remaining row has a missing
\* value in a column of cols; the remaining rows are exactly the input rows
\* without a missing value in cols, in their order; and the columns are
\* exactly the input columns that are not entirely missing over the
\* remaining rows, in their order.
DropNanResult ==
    (last.op = "try_drop_nan" /\ last.res = "Success") =>
        LET cols == Range(last.a.cols)
            K == {i \in 1..NRows(pre) : \A c \in cols : ~IsNa(pre.rows[i][c])}
            C == {c \in Range(pre.cols) : \E i \in K : ~IsNa(pre.rows[i][c])}
        IN /\ \A i \in 1..NRows(df) : \A c \in cols \cap Range(df.cols) :
                 ~IsNa(df.rows[i][c])
           /\ NRows(df) > 0 => cols \subseteq Range(df.cols)
           /\ NRows(df) = Cardinality(K)
           /\ \E f \in [1..NRows(df) -> K] :
                 /\ \A i, j \in 1..NRows(df) : i < j => f[i] < f[j]
                 /\ \A i \in 1..NRows(df) :
                       /\ df.idx[i] = pre.idx[f[i]]
                       /\ \A c \in C : df.rows[i][c] = pre.rows[f[i]][c]
           /\ Range(df.cols) = C
           /\ Len(df.cols) = Cardinality(C)
           /\ \A i, j \in 1..Len(pre.cols) :
                 (i < j /\ pre.cols[i] \in C /\ pre.cols[j] \in C) =>
                    \E m, n \in 1..Len(df.cols) :
                       m < n /\ df.cols[m] = pre.cols[i] /\ df.cols[n] = pre.cols[j]

\* try_drop_nan dropped a row and an entirely missing column, and kept rows
DropNanResultWitness ==
    /\ last.op = "try_drop_nan"
    /\ last.res = "Success"
    /\ 0 < NRows(df)
    /\ NRows(df) < NRows(pre)
    /\ Len(df.cols) < Len(pre.cols)

\* lo <= x <= hi for a number x = n/d
Within(x, lo, hi) == lo * x.d <= x.n /\ x.n <= hi * x.d

\* the cells outside cols, the index and the columns are as before the call
OnlyColsTouched(cols) ==
    /\ df.cols = pre.cols
    /\ df.idx = pre.idx
    /\ NRows(df) = NRows(pre)
    /\ \A i \in 1..NRows(df) : \A c \in Range(df.cols) \ cols :
          df.rows[i][c] = pre.rows[i][c]

GetLinesRows ==
    (last.op = "get_lines" /\ ~raised) =>
        LET n == last.a.amount
            N == NRows(pre)
            k == Min(Abs(n), N)
        IN /\ df = pre
           /\ ret.cols = pre.cols
           /\ NRows(ret) = k
           /\ \A i \in 1..NRows(ret) :
                 LET j == IF n > 0 THEN i ELSE N - k + i
                 IN j \in 1..N /\ ret.rows[i] = pre.rows[j]
                    /\ ret.idx[i] = pre.idx[j]

\* C10: a table the caller passed in at construction or to try_update_df,
\* or read through the df property, keeps the contents it had then, whatever
\* the handler does afterwards.
CallerTableKeepsContents == caller.held => caller.val = caller.orig

====
